---- MODULE Spec2Model ----
(***************************************************************************)
(* The bitswap engine of rust-ipfs (bitswap/src/bitswap.rs) and its        *)
(* per-peer ledger (bitswap/src/ledger.rs) as a state machine.             *)
(*                                                                         *)
(* The engine owns wanted_blocks, connected_peers and stats and runs one   *)
(* loop (process_loop) that takes one item at a time from three unbounded  *)
(* channels: peer events, incoming messages, control commands.  It spawns  *)
(* tasks for block-store lookups (get), block-store writes (put) and       *)
(* outbound sends.  The stream handler (protocol.rs), the control handle   *)
(* (control.rs) and the counters (stat.rs) are not part of the sources at  *)
(* hand; the environment actions that stand for them follow the written    *)
(* specification of the repository.                                        *)
(***************************************************************************)
EXTENDS Integers, Sequences, FiniteSets, Bags, TLC

\* ------------------------------------------------------------------ bounds
\* Number of environment submissions (streams opened or closed, frames
\* received, control commands issued, control handles dropped).
MaxEvents == 4

\* Number of Control handles made by control().
MaxHandles == 2

\* ------------------------------------------------------------- the universe
Peers == {"A", "B"}
Cids == {"c1", "c2"}
\* Priorities a remote peer puts in its wants (Priority is i32).
InPriorities == {7}
NoPeer == "no_peer"
NoCid == "no_cid"

\* A block is content addressed: its data is a function of its cid.
DataOf(c) == IF c = "c1" THEN <<1>> ELSE <<2, 2>>
Block(c) == [cid |-> c, data |-> DataOf(c)]
Blocks == {Block(c) : c \in Cids}

\* ------------------------------------------------------------------- maps
\* HashMap<K, V> as a function whose domain is the set of keys.
EmptyMap == [k \in {} |-> 0]
MapInsert(m, k, v) == [x \in (DOMAIN m) \cup {k} |-> IF x = k THEN v ELSE m[x]]
MapRemove(m, k) == [x \in (DOMAIN m) \ {k} |-> m[x]]
Range(s) == {s[i] : i \in DOMAIN s}
None == <<>>
Some(x) == <<x>>

\* All orders in which a HashMap may iterate over the key set S.
Orders(S) == {o \in [1..Cardinality(S) -> S] : Range(o) = S}

\* ---------------------------------------------------------------- Message
\* ledger.rs: struct Message.  The presence sets are filled by the decoder
\* only; the full flag is never set.
Message_default == [want |-> EmptyMap, cancel |-> {}, haves |-> {}, dont_haves |-> {},
                    full |-> FALSE, blocks |-> <<>>]

Message_is_empty(m) == DOMAIN m.want = {} /\ m.cancel = {} /\ m.blocks = <<>>

Message_add_block(m, block) == [m EXCEPT !.blocks = Append(@, block)]

Message_want_block(m, cid, priority) == [m EXCEPT !.want = MapInsert(@, cid, priority)]

Message_cancel_block(m, cid) == [m EXCEPT !.cancel = @ \cup {cid}]

Message_have_block(m, cid) == [m EXCEPT !.haves = @ \cup {cid}]

Message_dont_have_block(m, cid) == [m EXCEPT !.dont_haves = @ \cup {cid}]

\* ------------------------------------------------------------------ codec
\* The canonical bytes of a cid: version, codec, multihash type, multihash
\* length, digest of the data it addresses.  Digest stands for the hash
\* function: it is one-to-one on the data of the universe.
Digest(data) == [i \in 1..Len(data) |-> (data[i] * 7 + Len(data)) % 256]
Cid_to_bytes(c) == <<1, 85, 18, Len(Digest(DataOf(c)))>> \o Digest(DataOf(c))

\* Cid::try_from(bytes): the cid with these bytes; NoCid stands for the error.
Cid_try_from(bytes) ==
  IF \E c \in Cids : Cid_to_bytes(c) = bytes
  THEN CHOOSE c \in Cids : Cid_to_bytes(c) = bytes
  ELSE NoCid

\* Prefix::from(&cid).to_bytes(): version, codec, multihash type and length.
Prefix_to_bytes(c) == SubSeq(Cid_to_bytes(c), 1, 4)

\* Prefix::new(bytes)?.to_cid(data): the data hashed as the prefix says.
Prefix_to_cid(prefix, data) ==
  IF Len(prefix) # 4 THEN NoCid
  ELSE Cid_try_from(<<prefix[1], prefix[2], prefix[3], Len(Digest(data))>> \o Digest(data))

\* impl From<&Message> for Vec<u8>: the protobuf message that is serialised.
\* want_order and cancel_order are the orders in which want and cancel are
\* iterated.  Absent fields of an entry have the protobuf defaults.
Message_to_bytes(msg, want_order, cancel_order) ==
  LET wants == [i \in 1..Len(want_order) |->
                  [block |-> Cid_to_bytes(want_order[i]),
                   priority |-> msg.want[want_order[i]],
                   cancel |-> FALSE]]
      cancels == [i \in 1..Len(cancel_order) |->
                    [block |-> Cid_to_bytes(cancel_order[i]), priority |-> 0,
                     cancel |-> TRUE]]
      entries == wants \o cancels
      payload == [i \in 1..Len(msg.blocks) |->
                    [prefix |-> Prefix_to_bytes(msg.blocks[i].cid),
                     data |-> msg.blocks[i].data]]
  IN [wantlist |-> IF entries # <<>> THEN Some([entries |-> entries]) ELSE None,
      block_presences |-> <<>>,
      payload |-> payload]

InvalidData == [ok |-> FALSE, message |-> Message_default]

\* Variant: a cancel entry also takes the cid out of the wants.
RECURSIVE decode_entries_cancel_wins(_, _)
decode_entries_cancel_wins(res, entries) ==
  IF entries = <<>> \/ ~res.ok THEN res
  ELSE LET entry == Head(entries)
           cid == Cid_try_from(entry.block)
       IN IF cid = NoCid THEN InvalidData
          ELSE decode_entries_cancel_wins(
                 [res EXCEPT !.message =
                    IF entry.cancel
                    THEN [Message_cancel_block(@, cid) EXCEPT !.want = MapRemove(@, cid)]
                    ELSE Message_want_block(@, cid, entry.priority)],
                 Tail(entries))

\* for entry in proto.wantlist.unwrap_or_default().entries
RECURSIVE decode_entries(_, _)
decode_entries(res, entries) ==
  IF entries = <<>> \/ ~res.ok THEN res
  ELSE LET entry == Head(entries)
           cid == Cid_try_from(entry.block)
       IN IF cid = NoCid THEN InvalidData
          ELSE decode_entries(
                 [res EXCEPT !.message =
                    IF entry.cancel
                    THEN Message_cancel_block(@, cid)
                    ELSE Message_want_block(@, cid, entry.priority)],
                 Tail(entries))

\* bitswap_pb::message::BlockPresenceType::from_i32
Have == 0
DontHave == 1
BlockPresenceType_from_i32(t) == IF t \in {Have, DontHave} THEN Some(t) ELSE None

\* for bp in proto.block_presences
RECURSIVE decode_presences(_, _)
decode_presences(res, block_presences) ==
  IF block_presences = <<>> \/ ~res.ok THEN res
  ELSE LET bp == Head(block_presences)
           cid == Cid_try_from(bp.cid)
           msg_type == BlockPresenceType_from_i32(bp.type)
       IN IF cid = NoCid \/ msg_type = None THEN InvalidData
          ELSE decode_presences(
                 [res EXCEPT !.message =
                    IF msg_type[1] = Have
                    THEN Message_have_block(@, cid)
                    ELSE Message_dont_have_block(@, cid)],
                 Tail(block_presences))

\* for payload in proto.payload
RECURSIVE decode_payload(_, _)
decode_payload(res, payload) ==
  IF payload = <<>> \/ ~res.ok THEN res
  ELSE LET cid == Prefix_to_cid(Head(payload).prefix, Head(payload).data)
       IN IF cid = NoCid THEN InvalidData
          ELSE decode_payload(
                 [res EXCEPT !.message =
                    Message_add_block(@, [cid |-> cid, data |-> Head(payload).data])],
                 Tail(payload))

\* impl TryFrom<&[u8]> for Message, once bitswap_pb::Message::decode has
\* returned proto.
Message_from_bytes(proto) ==
  LET wantlist == IF proto.wantlist = None THEN [entries |-> <<>>] ELSE proto.wantlist[1]
  IN decode_payload(
       decode_presences(
         decode_entries([ok |-> TRUE, message |-> Message_default], wantlist.entries),
         proto.block_presences),
       proto.payload)

\* Bytes read from a stream: Some(proto) when they are a protobuf message,
\* NotProtobuf when bitswap_pb::Message::decode rejects them.
NotProtobuf == None

\* impl TryFrom<&[u8]> for Message
Message_try_from(bytes) ==
  IF bytes = NotProtobuf THEN InvalidData ELSE Message_from_bytes(bytes[1])

\* ----------------------------------------------------------------- Ledger
Ledger_new == [sent_want_list |-> EmptyMap,
               received_want_list |-> EmptyMap,
               message |-> Message_default]

Ledger_add_block(l, block) == [l EXCEPT !.message = Message_add_block(@, block)]

Ledger_want_block(l, cid, priority) ==
  [l EXCEPT !.message = Message_want_block(@, cid, priority)]

Ledger_cancel_block(l, cid) == [l EXCEPT !.message = Message_cancel_block(@, cid)]

\* The (cid, priority) pairs of received_want_list, in unspecified order: a
\* Vec whose order is not specified is a bag.
Ledger_wantlist(l) ==
  SetToBag({<<c, l.received_want_list[c]>> : c \in DOMAIN l.received_want_list})

\* Variant: the queued message is cloned, not moved out.
Ledger_send_clones(l) ==
  IF Message_is_empty(l.message)
  THEN [ledger |-> l, message |-> None]
  ELSE LET removed == [c \in (DOMAIN l.sent_want_list) \ l.message.cancel |->
                          l.sent_want_list[c]]
           inserted == [c \in (DOMAIN removed) \cup (DOMAIN l.message.want) |->
                          IF c \in DOMAIN l.message.want
                          THEN l.message.want[c] ELSE removed[c]]
       IN [ledger |-> [l EXCEPT !.sent_want_list = inserted],
           message |-> Some(l.message)]

\* Variant: the wants are inserted first and the cancels removed after.
Ledger_send_inserts_first(l) ==
  IF Message_is_empty(l.message)
  THEN [ledger |-> l, message |-> None]
  ELSE LET inserted == [c \in (DOMAIN l.sent_want_list) \cup (DOMAIN l.message.want) |->
                          IF c \in DOMAIN l.message.want
                          THEN l.message.want[c] ELSE l.sent_want_list[c]]
           removed == [c \in (DOMAIN inserted) \ l.message.cancel |-> inserted[c]]
       IN [ledger |-> [l EXCEPT !.sent_want_list = removed,
                                !.message = Message_default],
           message |-> Some(l.message)]

\* Ledger::send: None on an empty queued message; otherwise the cancels are
\* removed from sent_want_list, then the wants inserted, and the queued
\* message is moved out.
Ledger_send(l) ==
  IF Message_is_empty(l.message)
  THEN [ledger |-> l, message |-> None]
  ELSE LET removed == [c \in (DOMAIN l.sent_want_list) \ l.message.cancel |->
                          l.sent_want_list[c]]
           inserted == [c \in (DOMAIN removed) \cup (DOMAIN l.message.want) |->
                          IF c \in DOMAIN l.message.want
                          THEN l.message.want[c] ELSE removed[c]]
       IN [ledger |-> [l EXCEPT !.sent_want_list = inserted,
                                !.message = Message_default],
           message |-> Some(l.message)]

\* ------------------------------------------------------------------ Stats
Stats_default == [incoming_unique |-> 0, incoming_duplicate |-> 0, outgoing |-> 0]
update_outgoing(s, n) == [s EXCEPT !.outgoing = @ + n]
update_incoming_unique(s, bytes) == [s EXCEPT !.incoming_unique = @ + bytes]
update_incoming_duplicate(s, bytes) == [s EXCEPT !.incoming_duplicate = @ + bytes]


\* ------------------------------------------------------------------ state
VARIABLES
  wanted_blocks,    \* Cid -> sequence of reply channels (waiters), in order
  connected_peers,  \* PeerId -> Ledger
  stats,            \* PeerId -> Stats
  peer_rx,          \* contents of the peer-event channel
  incoming_rx,      \* contents of the incoming-message channel
  control_rx,       \* contents of the control channel
  swarm,            \* field swarm: None until start() sets it
  loop,             \* process_loop: "new" (not started), "running", "closing"
                    \* (returned Err(Closing)), "panicked"
  get_tasks,        \* bag of block-store lookup tasks in flight
  put_tasks,        \* bag of block-store put tasks in flight
  replies,          \* reply channel -> its command (cmd) and what the engine sent on it (got)
  rx_dropped,       \* reply channels whose receiver was dropped by the caller
  streams,          \* PeerId -> number of live streams (one handler each)
  control_handles,  \* Control handles alive outside the engine
  control_closed,   \* the control channel has been closed
  events,           \* environment submissions so far
  alive,            \* peers whose latest handled lifecycle event is NewPeer
  last,             \* the item handled by the latest step of the loop, or the task
                    \* that ended last
  out,              \* what that step sent: to waiters and to the network
  wire,             \* a message handed to the codec, its bytes and what they decode to;
                    \* a frame read from a stream and what it is parsed to
  sending           \* a ledger by itself: as given, as it is now, what send() returned

vars == <<wanted_blocks, connected_peers, stats, peer_rx, incoming_rx, control_rx,
          loop, get_tasks, put_tasks, replies, rx_dropped, streams,
          control_handles, events, alive, last, out, wire, sending, swarm,
          control_closed>>

\* The sender the engine keeps for itself (field control_tx, cloned by control()).
own_control_tx == 1

\* The senders of the control channel that can still send: none once the
\* channel is closed.
control_senders == IF control_closed THEN 0 ELSE control_handles + own_control_tx

\* ----------------------------------------------------------------- engine
\* The handlers are functions of the engine's state E: the fields the engine
\* owns, the tasks it has spawned and what it has sent during the step.
Eng == [swarm |-> swarm,
        wanted_blocks |-> wanted_blocks,
        connected_peers |-> connected_peers,
        stats |-> stats,
        replies |-> replies,
        rx_dropped |-> rx_dropped,
        get_tasks |-> get_tasks,
        put_tasks |-> put_tasks,
        sends |-> <<>>,
        dispatched |-> <<>>,
        result |-> "ok"]

\* oneshot::Sender::send: the value is handed over unless the receiver is gone;
\* the engine ignores the result.
reply_send(E, tx, val) ==
  [E EXCEPT !.replies[tx].got = Append(@, val),
            !.sends = Append(@, [tx |-> tx, val |-> val, ok |-> tx \notin E.rx_dropped])]

RECURSIVE reply_send_all(_, _, _)
reply_send_all(E, txs, val) ==
  IF txs = <<>> THEN E
  ELSE reply_send_all(reply_send(E, Head(txs), val), Tail(txs), val)

\* let swarm = self.swarm.clone().expect("swarm??");
\* task::spawn(send_message(swarm, peer_id, message)): the task reports to nobody,
\* whether the send succeeds or fails.
spawn_send(E, peer_id, message) ==
  IF E.swarm = None
  THEN [E EXCEPT !.result = "panicked"]
  ELSE [E EXCEPT !.dispatched = Append(@, [to |-> peer_id, message |-> message])]

send_message_to(E, peer_id, message) ==
  LET E1 == IF peer_id \in DOMAIN E.stats
            THEN [E EXCEPT !.stats[peer_id] = update_outgoing(@, Len(message.blocks))]
            ELSE E
  IN spawn_send(E1, peer_id, message)

\* Variant: one entry per waiter of a cid.
local_wantlist_per_waiter(E) == [c \in DOMAIN E.wanted_blocks |-> Len(E.wanted_blocks[c])]

\* The keys of wanted_blocks, each once, in unspecified order.
local_wantlist(E) == SetToBag(DOMAIN E.wanted_blocks)

peer_wantlist(E, peer) ==
  IF peer \in DOMAIN E.connected_peers
  THEN Some(Ledger_wantlist(E.connected_peers[peer]))
  ELSE None

peers(E) == SetToBag(DOMAIN E.connected_peers)

\* Variant: the snapshot is sent without looking whether it is empty.
send_want_list_always(E, peer_id) ==
  spawn_send(E, peer_id,
             [Message_default EXCEPT !.want = [c \in DOMAIN E.wanted_blocks |-> 1]])

send_want_list(E, peer_id) ==
  IF DOMAIN E.wanted_blocks # {}
  THEN spawn_send(E, peer_id,
                  [Message_default EXCEPT !.want = [c \in DOMAIN E.wanted_blocks |-> 1]])
  ELSE E

\* The lookup task as spawned: nothing asked yet, let mut blocks = vec![].
\* The field some is the history of the store's answers: the positions in
\* to_get at which get returned Ok(Some(block)).
lookup_task(source, to_get) ==
  [source |-> source, to_get |-> to_get, asked |-> 0, blocks |-> <<>>, some |-> {}]

RECURSIVE add_blocks(_, _)
add_blocks(ledger, blocks) ==
  IF blocks = <<>> THEN ledger
  ELSE add_blocks(Ledger_add_block(ledger, Head(blocks)), Tail(blocks))

Panicked(E) == [E EXCEPT !.result = "panicked"]

\* handle_event, arm Blocks(peer, blocks)
handle_event_Blocks(E, peer, blocks) ==
  IF peer \notin DOMAIN E.connected_peers
  THEN Panicked(E)
  ELSE LET sent == Ledger_send(add_blocks(E.connected_peers[peer], blocks))
           E1 == [E EXCEPT !.connected_peers[peer] = sent.ledger]
       IN IF sent.message # None
          THEN send_message_to(E1, peer, sent.message[1])
          ELSE E1

\* Variant: a peer that is already connected keeps the ledger it has.
handle_event_NewPeer_keeps_ledger(E, p) ==
  LET E1 == [E EXCEPT !.connected_peers = IF p \in DOMAIN @ THEN @
                                          ELSE MapInsert(@, p, Ledger_new),
                      !.stats = IF p \in DOMAIN @ THEN @
                                ELSE MapInsert(@, p, Stats_default)]
  IN send_want_list(E1, p)

\* Variant: a default stats entry is inserted whether p has one or not.
handle_event_NewPeer_resets_stats(E, p) ==
  LET E1 == [E EXCEPT !.connected_peers = MapInsert(@, p, Ledger_new),
                      !.stats = MapInsert(@, p, Stats_default)]
  IN send_want_list(E1, p)

\* handle_event, arm NewPeer(p)
handle_event_NewPeer(E, p) ==
  LET E1 == [E EXCEPT !.connected_peers = MapInsert(@, p, Ledger_new),
                      !.stats = IF p \in DOMAIN @ THEN @
                                ELSE MapInsert(@, p, Stats_default)]
  IN send_want_list(E1, p)

\* Variant: the ledger of a dead peer is kept.
handle_event_DeadPeer_keeps(E, p) == E

\* handle_event, arm DeadPeer(p)
handle_event_DeadPeer(E, p) ==
  [E EXCEPT !.connected_peers = MapRemove(@, p)]

handle_event(E, evt) ==
  CASE evt.kind = "Blocks" -> handle_event_Blocks(E, evt.peer, evt.blocks)
    [] evt.kind = "NewPeer" -> handle_event_NewPeer(E, evt.peer)
    [] evt.kind = "DeadPeer" -> handle_event_DeadPeer(E, evt.peer)

\* for (_peer_id, ledger) in connected_peers.iter_mut() { ledger.cancel_block(cid) }
cancel_all(connected, cid) ==
  [p \in DOMAIN connected |-> Ledger_cancel_block(connected[p], cid)]

\* Variant: queuing the want takes the cid out of the queued cancels.
want_all_uncancels(connected, cid, priority) ==
  [p \in DOMAIN connected |->
     [Ledger_want_block(connected[p], cid, priority) EXCEPT !.message.cancel = @ \ {cid}]]

\* for (_peer_id, ledger) in connected_peers.iter_mut() { ledger.want_block(cid, prio) }
want_all(connected, cid, priority) ==
  [p \in DOMAIN connected |-> Ledger_want_block(connected[p], cid, priority)]

\* Variant: the waiters are read with get() and the entry stays in the table.
publish_block_keeps(E, block) ==
  LET txs == IF block.cid \in DOMAIN E.wanted_blocks
             THEN E.wanted_blocks[block.cid] ELSE <<>>
  IN reply_send_all(E, txs, [ok |-> block])

\* wanted_blocks.remove(&block.cid).map(|txs| each tx.send(Ok(block.clone())))
publish_block(E, block) ==
  LET txs == IF block.cid \in DOMAIN E.wanted_blocks
             THEN E.wanted_blocks[block.cid] ELSE <<>>
  IN reply_send_all([E EXCEPT !.wanted_blocks = MapRemove(@, block.cid)],
                    txs, [ok |-> block])

\* Variant: the cancel is queued for the other peers only, not for the source.
handle_received_block_spares_source(E, source, block) ==
  LET E1 == publish_block(E, block)
      E2 == [E1 EXCEPT !.connected_peers =
               [p \in DOMAIN @ |-> IF p = source THEN @[p]
                                   ELSE Ledger_cancel_block(@[p], block.cid)]]
  IN IF source \notin DOMAIN E2.stats
     THEN Panicked(E2)
     ELSE [E2 EXCEPT !.put_tasks = @ (+) SetToBag({[source |-> source, block |-> block]})]

\* Variant: the block is stored and cancelled but not handed to the waiters.
handle_received_block_stores_only(E, source, block) ==
  LET E2 == [E EXCEPT !.connected_peers = cancel_all(@, block.cid)]
  IN IF source \notin DOMAIN E2.stats
     THEN Panicked(E2)
     ELSE [E2 EXCEPT !.put_tasks = @ (+) SetToBag({[source |-> source, block |-> block]})]

handle_received_block(E, source, block) ==
  LET E1 == publish_block(E, block)
      E2 == [E1 EXCEPT !.connected_peers = cancel_all(@, block.cid)]
  IN IF source \notin DOMAIN E2.stats
     THEN Panicked(E2)
     ELSE [E2 EXCEPT !.put_tasks = @ (+) SetToBag({[source |-> source, block |-> block]})]

RECURSIVE handle_received_blocks(_, _, _)
handle_received_blocks(E, source, blocks) ==
  IF blocks = <<>> \/ E.result = "panicked" THEN E
  ELSE handle_received_blocks(handle_received_block(E, source, Head(blocks)),
                              source, Tail(blocks))

\* Variant: every want of the message is served, locally wanted or not.
wants_to_serve_all(want_order, current_wantlist) == want_order

\* message.want().iter().filter(|&(cid, _)| !current_wantlist.contains(&cid))
wants_to_serve(want_order, current_wantlist) ==
  SelectSeq(want_order, LAMBDA c : ~BagIn(c, current_wantlist))

\* Variant: the wants are inserted first and the cancels removed after.
handle_incoming_message_cancels_last(E, source, message, want_order) ==
  LET current_wantlist == local_wantlist(E)
  IN IF source \notin DOMAIN E.connected_peers
     THEN Panicked(E)
     ELSE LET ledger == E.connected_peers[source]
              to_get == wants_to_serve(want_order, current_wantlist)
              wanted == [c \in (DOMAIN ledger.received_want_list) \cup Range(to_get) |->
                           IF c \in Range(to_get) THEN message.want[c]
                           ELSE ledger.received_want_list[c]]
              cancelled == [c \in (DOMAIN wanted) \ message.cancel |-> wanted[c]]
              E1 == [E EXCEPT !.connected_peers[source].received_want_list = cancelled,
                              !.get_tasks = IF Len(to_get) > 0
                                            THEN @ (+) SetToBag({lookup_task(source, to_get)})
                                            ELSE @]
          IN handle_received_blocks(E1, source, message.blocks)

\* want_order is the order in which the HashMap message.want is iterated.
handle_incoming_message(E, source, message, want_order) ==
  LET current_wantlist == local_wantlist(E)
  IN IF source \notin DOMAIN E.connected_peers
     THEN Panicked(E)
     ELSE LET ledger == E.connected_peers[source]
              cancelled == [c \in (DOMAIN ledger.received_want_list) \ message.cancel |->
                              ledger.received_want_list[c]]
              to_get == wants_to_serve(want_order, current_wantlist)
              wanted == [c \in (DOMAIN cancelled) \cup Range(to_get) |->
                           IF c \in Range(to_get) THEN message.want[c] ELSE cancelled[c]]
              E1 == [E EXCEPT !.connected_peers[source].received_want_list = wanted,
                              !.get_tasks = IF Len(to_get) > 0
                                            THEN @ (+) SetToBag({lookup_task(source, to_get)})
                                            ELSE @]
          IN handle_received_blocks(E1, source, message.blocks)

\* Variant: the entry is created but the sender is not pushed.
want_block_registers_nobody(E, cid, priority, tx) ==
  [E EXCEPT !.connected_peers = want_all(@, cid, priority),
            !.wanted_blocks = MapInsert(@, cid, IF cid \in DOMAIN @ THEN @[cid] ELSE <<>>)]

want_block(E, cid, priority, tx) ==
  [E EXCEPT !.connected_peers = want_all(@, cid, priority),
            !.wanted_blocks = MapInsert(@, cid,
                                 Append(IF cid \in DOMAIN @ THEN @[cid] ELSE <<>>, tx))]

\* Variant: the queued message of every peer in S is sent at once.
RECURSIVE send_messages(_, _)
send_messages(E, S) ==
  IF S = {} THEN E
  ELSE LET p == CHOOSE x \in S : TRUE
           sent == Ledger_send(E.connected_peers[p])
           E1 == [E EXCEPT !.connected_peers[p] = sent.ledger]
       IN send_messages(IF sent.message # None
                        THEN send_message_to(E1, p, sent.message[1]) ELSE E1,
                        S \ {p})

\* Variant: the cancel is flushed to the peers right away.
cancel_block_flushes(E, cid, tx) ==
  LET E1 == [E EXCEPT !.connected_peers = cancel_all(@, cid),
                      !.wanted_blocks = MapRemove(@, cid)]
  IN reply_send(send_messages(E1, DOMAIN E1.connected_peers), tx, [unit |-> TRUE])

\* Variant: the peers are told only when the cid was wanted.
cancel_block_if_wanted(E, cid, tx) ==
  reply_send(IF cid \in DOMAIN E.wanted_blocks
             THEN [E EXCEPT !.connected_peers = cancel_all(@, cid),
                            !.wanted_blocks = MapRemove(@, cid)]
             ELSE E,
             tx, [unit |-> TRUE])

\* Variant: the peers are told but the waiters stay in the table.
cancel_block_keeps_waiters(E, cid, tx) ==
  reply_send([E EXCEPT !.connected_peers = cancel_all(@, cid)], tx, [unit |-> TRUE])

cancel_block(E, cid, tx) ==
  reply_send([E EXCEPT !.connected_peers = cancel_all(@, cid),
                       !.wanted_blocks = MapRemove(@, cid)],
             tx, [unit |-> TRUE])

\* Bitswap::stats: the field-wise sum over every per-peer entry.
RECURSIVE SumOver(_, _, _)
SumOver(f, S, field) ==
  IF S = {} THEN 0
  ELSE LET p == CHOOSE x \in S : TRUE IN f[p][field] + SumOver(f, S \ {p}, field)

\* Variant: only the peers that are connected are counted.
bitswap_stats_connected(E) ==
  LET S == (DOMAIN E.stats) \cap (DOMAIN E.connected_peers)
  IN [incoming_unique |-> SumOver(E.stats, S, "incoming_unique"),
      incoming_duplicate |-> SumOver(E.stats, S, "incoming_duplicate"),
      outgoing |-> SumOver(E.stats, S, "outgoing")]

bitswap_stats(E) ==
  [incoming_unique |-> SumOver(E.stats, DOMAIN E.stats, "incoming_unique"),
   incoming_duplicate |-> SumOver(E.stats, DOMAIN E.stats, "incoming_duplicate"),
   outgoing |-> SumOver(E.stats, DOMAIN E.stats, "outgoing")]

\* handle_control_command(Some(cmd)); the None arm is in ControlRecv.
handle_control_command(E, cmd) ==
  CASE cmd.kind = "WantBlock" -> want_block(E, cmd.cid, 1, cmd.reply)
    [] cmd.kind = "CancelBlock" -> cancel_block(E, cmd.cid, cmd.reply)
    [] cmd.kind = "WantList" ->
         IF cmd.peer # NoPeer
         THEN LET list == peer_wantlist(E, cmd.peer)
              IN reply_send(E, cmd.reply,
                            [list |-> IF list = None THEN EmptyBag ELSE list[1]])
         ELSE LET local == local_wantlist(E)
              IN reply_send(E, cmd.reply,
                            [list |-> [e \in {<<c, 1>> : c \in BagToSet(local)} |->
                                         local[e[1]]]])
    [] cmd.kind = "Peers" -> reply_send(E, cmd.reply, [peers |-> peers(E)])
    [] cmd.kind = "Stats" -> reply_send(E, cmd.reply, [stats |-> bitswap_stats(E)])


\* ------------------------------------------------------------ the machine
NoItem == [kind |-> "none"]

Init ==
  /\ wanted_blocks = EmptyMap
  /\ connected_peers = EmptyMap
  /\ stats = EmptyMap
  /\ peer_rx = <<>>
  /\ incoming_rx = <<>>
  /\ control_rx = <<>>
  /\ swarm = None
  /\ loop = "new"
  /\ get_tasks = EmptyBag
  /\ put_tasks = EmptyBag
  /\ replies = <<>>
  /\ rx_dropped = {}
  /\ streams = [p \in Peers |-> 0]
  /\ control_handles = 0
  /\ control_closed = FALSE
  /\ events = 0
  /\ alive = {}
  /\ last = [chan |-> "none", item |-> NoItem]
  /\ out = [sends |-> <<>>, dispatched |-> <<>>]
  /\ wire = [sent |-> Message_default, bytes |-> None, received |-> None,
             frame |-> NotProtobuf, parsed |-> None]
  /\ sending = [given |-> Ledger_new, ledger |-> Ledger_new, returned |-> <<>>]

\* The engine once control() has been called once and start(swarm) has
\* spawned the loop, before anything is submitted to it.
Started ==
  /\ wanted_blocks = EmptyMap
  /\ connected_peers = EmptyMap
  /\ stats = EmptyMap
  /\ peer_rx = <<>>
  /\ incoming_rx = <<>>
  /\ control_rx = <<>>
  /\ swarm = Some("swarm")
  /\ loop = "running"
  /\ get_tasks = EmptyBag
  /\ put_tasks = EmptyBag
  /\ replies = <<>>
  /\ rx_dropped = {}
  /\ streams = [p \in Peers |-> 0]
  /\ control_handles = 1
  /\ control_closed = FALSE
  /\ events = 0
  /\ alive = {}
  /\ last = [chan |-> "none", item |-> NoItem]
  /\ out = [sends |-> <<>>, dispatched |-> <<>>]
  /\ wire = [sent |-> Message_default, bytes |-> None, received |-> None,
             frame |-> NotProtobuf, parsed |-> None]
  /\ sending = [given |-> Ledger_new, ledger |-> Ledger_new, returned |-> <<>>]

\* The state a handler leaves behind, and what the step has sent.
Commit(E, chan, item) ==
  /\ wanted_blocks' = E.wanted_blocks
  /\ connected_peers' = E.connected_peers
  /\ stats' = E.stats
  /\ replies' = E.replies
  /\ get_tasks' = E.get_tasks
  /\ put_tasks' = E.put_tasks
  /\ loop' = IF E.result = "panicked" THEN "panicked" ELSE loop
  /\ last' = [chan |-> chan, item |-> item]
  /\ out' = [sends |-> E.sends, dispatched |-> E.dispatched]

\* process_loop, arm 1: cmd = self.peer_rx.next() => self.handle_event(cmd)
PeerRecv ==
  /\ loop = "running"
  /\ peer_rx # <<>>
  /\ Commit(handle_event(Eng, Head(peer_rx)), "peer", Head(peer_rx))
  /\ peer_rx' = Tail(peer_rx)
  /\ alive' = CASE Head(peer_rx).kind = "NewPeer" -> alive \cup {Head(peer_rx).peer}
               [] Head(peer_rx).kind = "DeadPeer" -> alive \ {Head(peer_rx).peer}
               [] OTHER -> alive
  /\ UNCHANGED <<incoming_rx, control_rx, rx_dropped, streams, control_handles, events>>
  /\ UNCHANGED <<wire, sending, swarm, control_closed>>

\* process_loop, arm 2: msg = self.incoming_rx.next() => handle_incoming_message
IncomingRecv ==
  /\ loop = "running"
  /\ incoming_rx # <<>>
  /\ LET source == Head(incoming_rx).peer
         message == Head(incoming_rx).message
     IN \E want_order \in Orders(DOMAIN message.want) :
          Commit(handle_incoming_message(Eng, source, message, want_order), "incoming",
                 [kind |-> "Message", peer |-> source, message |-> message])
  /\ incoming_rx' = Tail(incoming_rx)
  /\ UNCHANGED <<peer_rx, control_rx, rx_dropped, streams, control_handles, events, alive>>
  /\ UNCHANGED <<wire, sending, swarm, control_closed>>

\* process_loop, arm 3: cmd = self.control_rx.next() => handle_control_command(cmd)?
\* next() yields None only when the channel is empty and closed: no sender
\* is left, or the channel was closed through a handle.
ControlRecv ==
  /\ loop = "running"
  /\ IF control_rx # <<>>
     THEN /\ Commit(handle_control_command(Eng, Head(control_rx)), "control",
                    Head(control_rx))
          /\ control_rx' = Tail(control_rx)
     ELSE /\ control_senders = 0
          /\ loop' = "closing"
          /\ last' = [chan |-> "control", item |-> NoItem]
          /\ out' = [sends |-> <<>>, dispatched |-> <<>>]
          /\ UNCHANGED <<wanted_blocks, connected_peers, stats, replies, get_tasks,
                         put_tasks, control_rx>>
  /\ UNCHANGED <<peer_rx, incoming_rx, rx_dropped, streams, control_handles, events,
                 alive>>
  /\ UNCHANGED <<wire, sending, swarm, control_closed>>

\* ------------------------------------------------------------ spawned tasks
\* Variant: a failed get adds the block as well.
push_found_on_err(blocks, cid, res) ==
  IF res \in {"some", "err"} THEN Append(blocks, Block(cid)) ELSE blocks

\* The lookup task of handle_incoming_message: one get per scheduled cid, in
\* order, the task waiting for the store at each of them.  Only
\* Ok(Some(block)) adds a block.
push_found(blocks, cid, res) ==
  IF res = "some" THEN Append(blocks, Block(cid)) ELSE blocks

\* Variant: the event is posted whether a block was found or not.
post_blocks_always(rx, source, blocks) ==
  Append(rx, [kind |-> "Blocks", peer |-> source, blocks |-> blocks])

\* if blocks.len() > 0 { poster.send(ProtocolEvent::Blocks(source, blocks)) }
post_blocks(rx, source, blocks) ==
  IF Len(blocks) > 0
  THEN Append(rx, [kind |-> "Blocks", peer |-> source, blocks |-> blocks])
  ELSE rx

\* The store answers the get a lookup task waits for.  The task goes on to
\* its next get; after the last one it posts the blocks it has and ends.
\* The send fails, and is ignored, once the loop has stopped.
GetAnswered ==
  \E t \in BagToSet(get_tasks) :
    \E res \in {"some", "none", "err"} :
      LET blocks == push_found(t.blocks, t.to_get[t.asked + 1], res)
          some == IF res = "some" THEN t.some \cup {t.asked + 1} ELSE t.some
      IN IF t.asked + 1 < Len(t.to_get)
         THEN /\ get_tasks' = (get_tasks (-) SetToBag({t}))
                                 (+) SetToBag({[t EXCEPT !.asked = @ + 1,
                                                         !.blocks = blocks,
                                                         !.some = some]})
              /\ UNCHANGED <<peer_rx, last, out>>
              /\ UNCHANGED <<wanted_blocks, connected_peers, stats, incoming_rx,
                             control_rx, loop, put_tasks, replies, rx_dropped, streams,
                             control_handles, events, alive>>
              /\ UNCHANGED <<wire, sending, swarm, control_closed>>
         ELSE /\ get_tasks' = get_tasks (-) SetToBag({t})
              /\ peer_rx' = IF loop = "running"
                            THEN post_blocks(peer_rx, t.source, blocks)
                            ELSE peer_rx
              /\ last' = [chan |-> "get",
                          item |-> [kind |-> "Get", peer |-> t.source,
                                    to_get |-> t.to_get,
                                    some |-> some]]
              /\ out' = [sends |-> <<>>, dispatched |-> <<>>]
              /\ UNCHANGED <<wanted_blocks, connected_peers, stats, incoming_rx,
                             control_rx, loop, put_tasks, replies, rx_dropped, streams,
                             control_handles, events, alive>>
              /\ UNCHANGED <<wire, sending, swarm, control_closed>>

\* Variant: a failed put is counted like an already stored block.
put_outcome_counts_failed(s, bytes, res) ==
  CASE res = "new" -> update_incoming_unique(s, bytes)
    [] res = "dup" -> update_incoming_duplicate(s, bytes)
    [] res = "err" -> update_incoming_duplicate(s, bytes)

\* The put task of handle_received_block.
put_outcome(s, bytes, res) ==
  CASE res = "new" -> update_incoming_unique(s, bytes)
    [] res = "dup" -> update_incoming_duplicate(s, bytes)
    [] res = "err" -> s

PutTaskDone ==
  \E t \in BagToSet(put_tasks) :
    \E res \in {"new", "dup", "err"} :
      /\ put_tasks' = put_tasks (-) SetToBag({t})
      /\ stats' = [stats EXCEPT ![t.source] = put_outcome(@, Len(t.block.data), res)]
      /\ last' = [chan |-> "put", item |-> [kind |-> "Put", peer |-> t.source,
                                            block |-> t.block, res |-> res]]
      /\ out' = [sends |-> <<>>, dispatched |-> <<>>]
      /\ UNCHANGED <<wanted_blocks, connected_peers, peer_rx, incoming_rx, control_rx,
                     loop, get_tasks, replies, rx_dropped, streams,
                     control_handles, events, alive>>
      /\ UNCHANGED <<wire, sending, swarm, control_closed>>

\* ------------------------------------------------------------- environment
\* The channels live as long as the loop: once it has stopped the receivers
\* are gone and nothing more is queued.
\* The frames a peer sends: empty, one want, one cancel, one block, or a want
\* of every cid.
Messages ==
  {Message_default}
    \cup {[Message_default EXCEPT !.want = [c \in Cids |-> prio]] : prio \in InPriorities}
    \cup {Message_want_block(Message_default, c, prio) : c \in Cids, prio \in InPriorities}
    \cup {Message_cancel_block(Message_default, c) : c \in Cids}
    \cup {Message_add_block(Message_default, b) : b \in Blocks}

Commands == [kind : {"WantBlock", "CancelBlock"}, cid : Cids, peer : {NoPeer}]
Queries ==
  [kind : {"WantList"}, cid : {NoCid}, peer : Peers \cup {NoPeer}]
    \cup [kind : {"Peers", "Stats"}, cid : {NoCid}, peer : {NoPeer}]

\* pub fn control(&self): one more Control, with a clone of control_tx.  It
\* borrows the engine, which start() moves into the task of the loop.
control ==
  /\ loop = "new"
  /\ control_handles < MaxHandles
  /\ control_handles' = control_handles + 1
  /\ UNCHANGED <<wanted_blocks, connected_peers, stats, peer_rx, incoming_rx, control_rx,
                 loop, get_tasks, put_tasks, replies, rx_dropped, streams,
                 events, alive, last, out>>
  /\ UNCHANGED <<wire, sending, swarm, control_closed>>

\* fn start(mut self, swarm): the swarm is set and the loop is spawned.
start ==
  /\ loop = "new"
  /\ swarm' = Some("swarm")
  /\ loop' = "running"
  /\ UNCHANGED <<wanted_blocks, connected_peers, stats, peer_rx, incoming_rx, control_rx,
                 get_tasks, put_tasks, replies, rx_dropped, streams,
                 control_handles, events, alive, last, out>>
  /\ UNCHANGED <<wire, sending, control_closed>>

\* Handler: a stream of peer p is opened.
HandlerOpen ==
  \E p \in Peers :
    /\ loop = "running"
    /\ events < MaxEvents
    /\ events' = events + 1
    /\ streams' = [streams EXCEPT ![p] = @ + 1]
    /\ peer_rx' = Append(peer_rx, [kind |-> "NewPeer", peer |-> p, blocks |-> <<>>])
    /\ UNCHANGED <<wanted_blocks, connected_peers, stats, incoming_rx, control_rx, loop,
                   get_tasks, put_tasks, replies, rx_dropped,
                   control_handles, alive, last, out>>
    /\ UNCHANGED <<wire, sending, swarm, control_closed>>

\* Handler: frame m read from a live stream of p and decoded.
Frame(p, m) ==
  /\ loop = "running"
  /\ events < MaxEvents
  /\ streams[p] > 0
  /\ events' = events + 1
  /\ incoming_rx' = Append(incoming_rx, [peer |-> p, message |-> m])
  /\ UNCHANGED <<wanted_blocks, connected_peers, stats, peer_rx, control_rx, loop,
                 get_tasks, put_tasks, replies, rx_dropped, streams,
                 control_handles, alive, last, out>>
  /\ UNCHANGED <<wire, sending, swarm, control_closed>>

HandlerFrame == \E p \in Peers, m \in Messages : Frame(p, m)

\* Frames that want and cancel at once, a cid possibly both, at two priorities.
FramePriorities == {7, 9}

WantCancelMessages ==
  {Message_want_block(Message_default, c, prio) : c \in Cids, prio \in FramePriorities}
    \cup {Message_cancel_block(Message_default, c) : c \in Cids}
    \cup {Message_cancel_block(Message_want_block(Message_default, c, prio), c) :
            c \in Cids, prio \in FramePriorities}

HandlerFrameWantCancel == \E p \in Peers, m \in WantCancelMessages : Frame(p, m)

\* Frames with one want or one block.
WantOrBlockMessages ==
  {Message_want_block(Message_default, c, prio) : c \in Cids, prio \in InPriorities}
    \cup {Message_add_block(Message_default, b) : b \in Blocks}

HandlerFrameWantOrBlock == \E p \in Peers, m \in WantOrBlockMessages : Frame(p, m)

\* Handler: end of a stream of p.
HandlerClose ==
  \E p \in Peers :
    /\ loop = "running"
    /\ events < MaxEvents
    /\ streams[p] > 0
    /\ events' = events + 1
    /\ streams' = [streams EXCEPT ![p] = @ - 1]
    /\ peer_rx' = Append(peer_rx, [kind |-> "DeadPeer", peer |-> p, blocks |-> <<>>])
    /\ UNCHANGED <<wanted_blocks, connected_peers, stats, incoming_rx, control_rx, loop,
                   get_tasks, put_tasks, replies, rx_dropped,
                   control_handles, alive, last, out>>
    /\ UNCHANGED <<wire, sending, swarm, control_closed>>

\* Control: command c is sent with a fresh one-shot reply channel.
Submit(c) ==
  /\ loop \in {"new", "running"}
  /\ ~control_closed
  /\ events < MaxEvents
  /\ control_handles > 0
  /\ events' = events + 1
  /\ replies' = Append(replies, [cmd |-> c, got |-> <<>>])
  /\ control_rx' = Append(control_rx, [kind |-> c.kind, cid |-> c.cid, peer |-> c.peer,
                                       reply |-> Len(replies) + 1])
  /\ UNCHANGED <<wanted_blocks, connected_peers, stats, peer_rx, incoming_rx, loop,
                 get_tasks, put_tasks, rx_dropped, streams,
                 control_handles, alive, last, out>>
  /\ UNCHANGED <<wire, sending, swarm, control_closed>>

\* Control: want_block / cancel_block.
ControlSubmit == \E c \in Commands : Submit(c)

\* Control: wantlist / peers / stats.
ControlQuery == \E c \in Queries : Submit(c)

\* Control: the application drops a Control handle.
ControlDrop ==
  /\ loop \in {"new", "running"}
  /\ events < MaxEvents
  /\ control_handles > 0
  /\ events' = events + 1
  /\ control_handles' = control_handles - 1
  /\ UNCHANGED <<wanted_blocks, connected_peers, stats, peer_rx, incoming_rx, control_rx,
                 loop, get_tasks, put_tasks, replies, rx_dropped, streams,
                 alive, last, out>>
  /\ UNCHANGED <<wire, sending, swarm, control_closed>>

\* Control: the application closes the control channel through a handle;
\* what is queued stays queued, nothing more can be sent.
ControlClose ==
  /\ loop \in {"new", "running"}
  /\ events < MaxEvents
  /\ control_handles > 0
  /\ ~control_closed
  /\ events' = events + 1
  /\ control_closed' = TRUE
  /\ UNCHANGED <<wanted_blocks, connected_peers, stats, peer_rx, incoming_rx, control_rx,
                 loop, get_tasks, put_tasks, replies, rx_dropped, streams,
                 control_handles, alive, last, out>>
  /\ UNCHANGED <<wire, sending, swarm>>

\* The caller drops the receiving end of a reply channel.
ReceiverDrop ==
  \E r \in (DOMAIN replies) \ rx_dropped :
    /\ loop \in {"new", "running"}
    /\ events < MaxEvents
    /\ events' = events + 1
    /\ rx_dropped' = rx_dropped \cup {r}
    /\ UNCHANGED <<wanted_blocks, connected_peers, stats, peer_rx, incoming_rx, control_rx,
                   loop, get_tasks, put_tasks, replies, streams,
                   control_handles, alive, last, out>>
    /\ UNCHANGED <<wire, sending, swarm, control_closed>>

\* The machine from construction on.
Next ==
  \/ control
  \/ start
  \/ PeerRecv
  \/ IncomingRecv
  \/ ControlRecv
  \/ GetAnswered
  \/ PutTaskDone
  \/ HandlerOpen
  \/ HandlerFrame
  \/ HandlerClose
  \/ ControlSubmit
  \/ ControlDrop
  \/ ControlClose
  \/ ReceiverDrop

Spec == Init /\ [][Next]_vars

\* The machine once started, with one Control handle.
NextRunning ==
  \/ PeerRecv
  \/ IncomingRecv
  \/ ControlRecv
  \/ GetAnswered
  \/ PutTaskDone
  \/ HandlerOpen
  \/ HandlerFrame
  \/ HandlerClose
  \/ ControlSubmit
  \/ ControlDrop
  \/ ReceiverDrop

SpecRunning == Started /\ [][NextRunning]_vars

\* The started machine whose control channel the application may close.  The
\* control arm of the loop is taken sooner or later while it has something
\* to yield.
NextClose ==
  \/ PeerRecv
  \/ IncomingRecv
  \/ ControlRecv
  \/ GetAnswered
  \/ PutTaskDone
  \/ HandlerOpen
  \/ HandlerFrame
  \/ HandlerClose
  \/ ControlSubmit
  \/ ControlDrop
  \/ ControlClose

SpecClose == Started /\ [][NextClose]_vars /\ WF_vars(ControlRecv)

\* The started machine with every command issued (wants, cancels and
\* queries) and fed with frames of one want or one block.
NextCommands ==
  \/ PeerRecv
  \/ IncomingRecv
  \/ ControlRecv
  \/ GetAnswered
  \/ PutTaskDone
  \/ HandlerOpen
  \/ HandlerFrameWantOrBlock
  \/ HandlerClose
  \/ ControlSubmit
  \/ ControlQuery

SpecCommands == Started /\ [][NextCommands]_vars

\* Control: want_block only.
WantSubmit == \E c \in Cids : Submit([kind |-> "WantBlock", cid |-> c, peer |-> NoPeer])

\* The started machine with the query commands issued: the application wants
\* blocks and asks for the wantlists, the peers and the statistics.
NextQ ==
  \/ PeerRecv
  \/ IncomingRecv
  \/ ControlRecv
  \/ GetAnswered
  \/ PutTaskDone
  \/ HandlerOpen
  \/ HandlerFrame
  \/ HandlerClose
  \/ WantSubmit
  \/ ControlQuery

SpecQ == Started /\ [][NextQ]_vars


\* The started machine fed with frames of wants and cancels only, while the
\* application wants blocks.
NextWantCancel ==
  \/ PeerRecv
  \/ IncomingRecv
  \/ ControlRecv
  \/ GetAnswered
  \/ HandlerOpen
  \/ HandlerFrameWantCancel
  \/ WantSubmit

SpecWantCancel == Started /\ [][NextWantCancel]_vars

\* ------------------------------------------------------ the codec by itself
\* Number of blocks of a message handed to the codec.
MaxMsgBlocks == 2

\* Priorities of the wants handed to the codec (Priority is i32; 0 is the
\* protobuf default).
CodecPriorities == {-1, 0, 7}

RECURSIVE BlockSeqs(_)
BlockSeqs(n) ==
  IF n = 0 THEN {<<>>}
  ELSE BlockSeqs(n - 1) \cup {Append(q, b) : q \in BlockSeqs(n - 1), b \in Blocks}

\* Messages with wants, cancels and blocks only; the cid of a block is the
\* one its data hashes to.
CodecMessages ==
  {[Message_default EXCEPT !.want = w, !.cancel = c, !.blocks = b] :
     w \in UNION {[S -> CodecPriorities] : S \in SUBSET Cids},
     c \in SUBSET Cids,
     b \in BlockSeqs(MaxMsgBlocks)}

InitCodec ==
  /\ wanted_blocks = EmptyMap
  /\ connected_peers = EmptyMap
  /\ stats = EmptyMap
  /\ peer_rx = <<>>
  /\ incoming_rx = <<>>
  /\ control_rx = <<>>
  /\ swarm = None
  /\ loop = "new"
  /\ get_tasks = EmptyBag
  /\ put_tasks = EmptyBag
  /\ replies = <<>>
  /\ rx_dropped = {}
  /\ streams = [p \in Peers |-> 0]
  /\ control_handles = 0
  /\ control_closed = FALSE
  /\ events = 0
  /\ alive = {}
  /\ last = [chan |-> "none", item |-> NoItem]
  /\ out = [sends |-> <<>>, dispatched |-> <<>>]
  /\ \E m \in CodecMessages : wire = [sent |-> m, bytes |-> None, received |-> None,
                                       frame |-> NotProtobuf, parsed |-> None]
  /\ sending = [given |-> Ledger_new, ledger |-> Ledger_new, returned |-> <<>>]

\* Message::to_bytes
Encode ==
  /\ wire.bytes = None
  /\ \E want_order \in Orders(DOMAIN wire.sent.want), cancel_order \in Orders(wire.sent.cancel) :
       wire' = [wire EXCEPT !.bytes = Some(Message_to_bytes(wire.sent, want_order,
                                                           cancel_order))]
  /\ UNCHANGED <<wanted_blocks, connected_peers, stats, peer_rx, incoming_rx, control_rx,
                 loop, get_tasks, put_tasks, replies, rx_dropped, streams,
                 control_handles, events, alive, last, out, sending, swarm,
                 control_closed>>

\* Message::from_bytes
Decode ==
  /\ wire.bytes # None
  /\ wire.received = None
  /\ wire' = [wire EXCEPT !.received = Some(Message_from_bytes(wire.bytes[1]))]
  /\ UNCHANGED <<wanted_blocks, connected_peers, stats, peer_rx, incoming_rx, control_rx,
                 loop, get_tasks, put_tasks, replies, rx_dropped, streams,
                 control_handles, events, alive, last, out, sending, swarm,
                 control_closed>>

\* The frames a peer may send: a want with a block presence of each type and
\* of an unknown type, a presence, an entry and a payload that name no cid,
\* and bytes that are no protobuf message.
WantFrame(block_presences) ==
  [wantlist |-> Some([entries |-> <<[block |-> Cid_to_bytes("c1"), priority |-> 7,
                                     cancel |-> FALSE]>>]),
   block_presences |-> block_presences,
   payload |-> <<>>]

PeerFrames ==
  {Some(WantFrame(<<[cid |-> Cid_to_bytes(c), type |-> t]>>)) :
     c \in Cids, t \in {Have, DontHave, 7}}
    \cup {Some(WantFrame(<<[cid |-> <<9>>, type |-> Have]>>)),
          Some(WantFrame(<<[cid |-> Cid_to_bytes("c1"), type |-> Have],
                           [cid |-> Cid_to_bytes("c2"), type |-> DontHave]>>)),
          Some([wantlist |-> Some([entries |-> <<[block |-> <<9>>, priority |-> 7,
                                                  cancel |-> FALSE]>>]),
                block_presences |-> <<>>, payload |-> <<>>]),
          Some([wantlist |-> None, block_presences |-> <<>>,
                payload |-> <<[prefix |-> <<1, 85>>, data |-> <<1>>]>>]),
          NotProtobuf}

\* Message::from_bytes on a frame read from a stream
FromBytes ==
  /\ wire.parsed = None
  /\ \E f \in PeerFrames :
       wire' = [wire EXCEPT !.frame = f, !.parsed = Some(Message_try_from(f))]
  /\ UNCHANGED <<wanted_blocks, connected_peers, stats, peer_rx, incoming_rx, control_rx,
                 loop, get_tasks, put_tasks, replies, rx_dropped, streams,
                 control_handles, events, alive, last, out, sending, swarm,
                 control_closed>>

NextCodec == Encode \/ Decode \/ FromBytes

SpecCodec == InitCodec /\ [][NextCodec]_vars

\* ----------------------------------------------------- a ledger by itself
\* Priorities in the maps of a ledger handed to send().
LedgerPriorities == {1, 7}

WantMaps == UNION {[S -> LedgerPriorities] : S \in SUBSET Cids}

\* Ledgers with any sent_want_list, some received_want_list and any queued
\* message of wants, cancels and blocks.
Ledgers ==
  [sent_want_list : WantMaps,
   received_want_list : {EmptyMap} \cup {[c \in Cids |-> p] : p \in InPriorities},
   message : {[Message_default EXCEPT !.want = w, !.cancel = c, !.blocks = b] :
                w \in WantMaps, c \in SUBSET Cids, b \in BlockSeqs(MaxMsgBlocks)}]

InitLedger ==
  /\ wanted_blocks = EmptyMap
  /\ connected_peers = EmptyMap
  /\ stats = EmptyMap
  /\ peer_rx = <<>>
  /\ incoming_rx = <<>>
  /\ control_rx = <<>>
  /\ swarm = None
  /\ loop = "new"
  /\ get_tasks = EmptyBag
  /\ put_tasks = EmptyBag
  /\ replies = <<>>
  /\ rx_dropped = {}
  /\ streams = [p \in Peers |-> 0]
  /\ control_handles = 0
  /\ control_closed = FALSE
  /\ events = 0
  /\ alive = {}
  /\ last = [chan |-> "none", item |-> NoItem]
  /\ out = [sends |-> <<>>, dispatched |-> <<>>]
  /\ wire = [sent |-> Message_default, bytes |-> None, received |-> None,
             frame |-> NotProtobuf, parsed |-> None]
  /\ \E l \in Ledgers : sending = [given |-> l, ledger |-> l, returned |-> <<>>]

\* ledger.send(), called once and once again right after.
LedgerSend ==
  /\ Len(sending.returned) < 2
  /\ LET sent == Ledger_send(sending.ledger)
     IN sending' = [sending EXCEPT !.ledger = sent.ledger,
                                   !.returned = Append(@, sent.message)]
  /\ UNCHANGED <<wanted_blocks, connected_peers, stats, peer_rx, incoming_rx, control_rx,
                 loop, get_tasks, put_tasks, replies, rx_dropped, streams,
                 control_handles, events, alive, last, out, wire, swarm,
                 control_closed>>

NextLedger == LedgerSend

SpecLedger == InitLedger /\ [][NextLedger]_vars

\* ------------------------------------------------------------------ steps
\* The step of the loop that takes the head of a channel (every other action
\* appends to a channel or leaves it alone).
HandledPeer == loop = "running" /\ peer_rx # <<>> /\ peer_rx' = Tail(peer_rx)
HandledIncoming == loop = "running" /\ incoming_rx # <<>> /\ incoming_rx' = Tail(incoming_rx)
HandledControl == loop = "running" /\ control_rx # <<>> /\ control_rx' = Tail(control_rx)


\* ----------------------------------------------------------------- claims

\* C1: the loop stops only by returning Closing: whatever the events, it is
\* running or it has returned Err(Closing); it is never aborted.
C1_StopsOnlyByClosing == loop \in {"new", "running", "closing"}

\* C2: a peer is a key of connected_peers exactly when the latest lifecycle
\* event the engine handled for it is NewPeer; nothing else adds or removes a key.
C2_ConnectedIffAlive == DOMAIN connected_peers = alive

\* C2 witness: a peer that connected and died while another one is connected.
C2_Witness ==
  \E p, q \in Peers :
    /\ p \in alive /\ p \in DOMAIN connected_peers
    /\ q \notin alive /\ q \in DOMAIN stats
    /\ last.chan = "peer" /\ last.item.kind = "DeadPeer" /\ last.item.peer = q

\* What is sent to waiters, in order, when blocks are received with wanted the table.
RECURSIVE ExpectedSends(_, _, _)
ExpectedSends(wanted, dropped, blocks) ==
  IF blocks = <<>> THEN <<>>
  ELSE LET b == Head(blocks)
           txs == IF b.cid \in DOMAIN wanted THEN wanted[b.cid] ELSE <<>>
       IN [i \in 1..Len(txs) |-> [tx |-> txs[i], val |-> [ok |-> b],
                                  ok |-> txs[i] \notin dropped]]
            \o ExpectedSends(MapRemove(wanted, b.cid), dropped, Tail(blocks))

\* The values, in order, that the sends of a step hand to reply channel r.
ValuesFor(sends, r) ==
  LET sel == SelectSeq(sends, LAMBDA e : e.tx = r)
  IN [i \in 1..Len(sel) |-> sel[i].val]

\* No waiter is sent more than one result, nor a block of another cid than the
\* one it asked for; a waiter still in the table has been sent nothing.
C3_AtMostOnce ==
  /\ \A r \in DOMAIN replies :
       replies[r].cmd.kind = "WantBlock" =>
         /\ Len(replies[r].got) <= 1
         /\ \A i \in DOMAIN replies[r].got : replies[r].got[i].ok.cid = replies[r].cmd.cid
  /\ \A c \in DOMAIN wanted_blocks :
       \A i \in DOMAIN wanted_blocks[c] :
         LET r == wanted_blocks[c][i]
         IN /\ replies[r].cmd.kind = "WantBlock"
            /\ replies[r].cmd.cid = c
            /\ replies[r].got = <<>>

\* WantBlock(c, r) appends r to the waiters of c; a received block b is sent
\* once to each waiter of b.cid, in registration order, and to nobody else.
C3_Delivery ==
  /\ (HandledControl /\ Head(control_rx).kind = "WantBlock") =>
       LET c == Head(control_rx).cid
       IN /\ c \in DOMAIN wanted_blocks'
          /\ wanted_blocks'[c] =
               Append(IF c \in DOMAIN wanted_blocks THEN wanted_blocks[c] ELSE <<>>,
                      Head(control_rx).reply)
  /\ (HandledIncoming /\ loop' = "running") =>
       /\ out'.sends = ExpectedSends(wanted_blocks, rx_dropped,
                                     Head(incoming_rx).message.blocks)
       /\ \A r \in DOMAIN replies :
            replies'[r].got = replies[r].got \o ValuesFor(out'.sends, r)

\* C3: every waiter registered for a cid is sent the block received for that
\* cid, once and in registration order; no waiter is ever sent two results or
\* a block of another cid, and a later block of the same cid is sent to no
\* waiter unless a WantBlock came in between.
C3_WaitersServedOnce == []C3_AtMostOnce /\ [][C3_Delivery]_vars

\* C3 witness: one received block was sent to two waiters of its cid.
C3_Witness ==
  /\ last.chan = "incoming"
  /\ Len(out.sends) = 2
  /\ out.sends[1].tx < out.sends[2].tx
  /\ replies[out.sends[1].tx].got = <<out.sends[1].val>>
  /\ replies[out.sends[2].tx].got = <<out.sends[2].val>>


\* C4: right after a frame with blocks is handled, no cid of its blocks is a
\* key of wanted_blocks and each is in the queued cancel set of every
\* connected peer, the source included.
C4_ReceivedBlockCancelled ==
  (last.chan = "incoming" /\ loop # "panicked") =>
    \A i \in DOMAIN last.item.message.blocks :
      LET c == last.item.message.blocks[i].cid
      IN /\ c \notin DOMAIN wanted_blocks
         /\ last.item.peer \in DOMAIN connected_peers
         /\ \A p \in DOMAIN connected_peers : c \in connected_peers[p].message.cancel

\* C4 witness: a wanted block came in from one of two connected peers.
C4_Witness ==
  /\ last.chan = "incoming" /\ loop = "running"
  /\ Len(last.item.message.blocks) = 1
  /\ Len(out.sends) = 1
  /\ DOMAIN connected_peers = Peers

\* C5: right after CancelBlock(c, reply) is handled, c is no key of
\* wanted_blocks, c is in the queued cancel set of every connected peer and
\* reply holds exactly one Ok(()).
C5_CancelBlockEffect ==
  (last.chan = "control" /\ last.item.kind = "CancelBlock") =>
    /\ last.item.cid \notin DOMAIN wanted_blocks
    /\ \A p \in DOMAIN connected_peers :
         last.item.cid \in connected_peers[p].message.cancel
    /\ replies[last.item.reply].got = <<[unit |-> TRUE]>>
    /\ Len(out.sends) = 1
    /\ out.sends[1].tx = last.item.reply
    /\ out.sends[1].val = [unit |-> TRUE]

\* C5 witness: a cid nobody wanted is cancelled while a peer is connected.
C5_Witness ==
  /\ last.chan = "control" /\ last.item.kind = "CancelBlock"
  /\ connected_peers # EmptyMap
  /\ \A r \in DOMAIN replies : replies[r].cmd.kind # "WantBlock"

\* A want on channel r that a later CancelBlock of the same cid has ended:
\* the cancel was submitted after it and has been acknowledged.
Cancelled(r) ==
  /\ replies[r].cmd.kind = "WantBlock"
  /\ \E r2 \in DOMAIN replies :
       /\ r2 > r
       /\ replies[r2].cmd.kind = "CancelBlock"
       /\ replies[r2].cmd.cid = replies[r].cmd.cid
       /\ replies[r2].got # <<>>

\* C6: once the CancelBlock submitted after WantBlock(c, r) has been handled,
\* no step sends anything on r, and a frame from a connected peer (with a
\* block of cid c or not) is handled without stopping the loop.
C6_NothingAfterCancel ==
  [][/\ \A r \in DOMAIN replies : Cancelled(r) => replies'[r].got = replies[r].got
     /\ (HandledIncoming /\ Head(incoming_rx).peer \in DOMAIN connected_peers) =>
          loop' = "running"]_vars

\* C6 witness: a block of cid c is handled after WantBlock(c, r) and
\* CancelBlock(c) were, and r holds nothing.
C6_Witness ==
  /\ last.chan = "incoming" /\ loop = "running"
  /\ \E r \in DOMAIN replies :
       /\ Cancelled(r)
       /\ replies[r].got = <<>>
       /\ \E i \in DOMAIN last.item.message.blocks :
            last.item.message.blocks[i].cid = replies[r].cmd.cid

\* The loop returns Closing only when the control channel has no sender left
\* that can send and nothing is queued on it.
C7_ClosingOnlyWhenClosed ==
  [][(loop = "running" /\ loop' = "closing") =>
       (control_senders = 0 /\ control_rx = <<>>)]_vars

\* C7: the loop returns Closing only when the control channel has no sender
\* left that can send and nothing is queued on it; and once the channel is
\* closed the loop, after the commands queued on it, returns Closing.
C7_ClosedLoopTerminates ==
  /\ C7_ClosingOnlyWhenClosed
  /\ (control_closed ~> loop = "closing")

\* The control arm by itself: a closed channel leads to Closing unless the
\* loop is aborted first.
C7_ClosingUnlessAborted == control_closed ~> loop \in {"closing", "panicked"}

\* C8: a frame from A with wants W, handled while L is the local wantlist:
\* a want of a cid in L is not inserted into A's received_want_list and no
\* lookup is scheduled for it; the wants of the cids outside L are inserted
\* with their priority and scheduled, once each, in one lookup task.
C8_WantOverlapSuppressed ==
  [][(HandledIncoming /\ loop' = "running") =>
       LET A == Head(incoming_rx).peer
           m == Head(incoming_rx).message
           L == DOMAIN wanted_blocks
           old == connected_peers[A].received_want_list
           new == connected_peers'[A].received_want_list
           served == (DOMAIN m.want) \ L
       IN /\ \A c \in (DOMAIN m.want) \cap L :
               /\ c \in DOMAIN new <=> c \in (DOMAIN old) \ m.cancel
               /\ c \in DOMAIN new => new[c] = old[c]
               /\ \A t \in DOMAIN get_tasks' : c \in Range(t.to_get) => t \in DOMAIN get_tasks
          /\ \A c \in served : c \in DOMAIN new /\ new[c] = m.want[c]
          /\ IF served = {}
             THEN get_tasks' = get_tasks
             ELSE \E order \in Orders(served) :
                    get_tasks' = get_tasks (+) SetToBag({lookup_task(A, order)})
    ]_vars

\* C8 witness: a want of a locally wanted cid was handled and left no trace.
C8_Witness ==
  /\ last.chan = "incoming" /\ loop = "running"
  /\ \E c \in DOMAIN last.item.message.want :
       /\ c \in DOMAIN wanted_blocks
       /\ c \notin DOMAIN connected_peers[last.item.peer].received_want_list
  /\ get_tasks = EmptyBag

\* C9: right after NewPeer(p) is handled, one message went out to p when the
\* local wantlist is not empty (want = every wanted cid at priority 1, no
\* cancel, no block) and none otherwise, and the ledger of p is empty.
C9_BootstrapSnapshot ==
  (last.chan = "peer" /\ last.item.kind = "NewPeer") =>
    LET p == last.item.peer
    IN /\ p \in DOMAIN connected_peers
       /\ connected_peers[p].sent_want_list = EmptyMap
       /\ connected_peers[p].received_want_list = EmptyMap
       /\ Message_is_empty(connected_peers[p].message)
       /\ IF DOMAIN wanted_blocks # {}
          THEN /\ Len(out.dispatched) = 1
               /\ out.dispatched[1].to = p
               /\ DOMAIN out.dispatched[1].message.want = DOMAIN wanted_blocks
               /\ \A c \in DOMAIN wanted_blocks : out.dispatched[1].message.want[c] = 1
               /\ out.dispatched[1].message.cancel = {}
               /\ out.dispatched[1].message.blocks = <<>>
          ELSE out.dispatched = <<>>

\* C9 witness: a peer connects while two cids are wanted.
C9_Witness ==
  /\ last.chan = "peer" /\ last.item.kind = "NewPeer"
  /\ DOMAIN wanted_blocks = Cids
  /\ Len(out.dispatched) = 1

\* C10: handling Blocks(p, bs) for a connected p sends one message to p: the
\* queued blocks followed by bs, with the queued wants and cancels; the
\* queued message of p is empty afterwards and stats[p].outgoing has grown
\* by the number of blocks sent.
C10_BlocksDispatch ==
  [][(HandledPeer /\ Head(peer_rx).kind = "Blocks"
        /\ Head(peer_rx).peer \in DOMAIN connected_peers /\ Head(peer_rx).blocks # <<>>) =>
       LET p == Head(peer_rx).peer
           queued == connected_peers[p].message
           sent == [queued EXCEPT !.blocks = @ \o Head(peer_rx).blocks]
       IN /\ loop' = "running"
          /\ out'.dispatched = <<[to |-> p, message |-> sent]>>
          /\ Message_is_empty(connected_peers'[p].message)
          /\ stats'[p].outgoing = stats[p].outgoing + Len(sent.blocks)
    ]_vars

\* C10 witness: two blocks went out to a peer together with a queued want.
C10_Witness ==
  /\ last.chan = "peer" /\ last.item.kind = "Blocks" /\ loop = "running"
  /\ Len(out.dispatched) = 1
  /\ Len(out.dispatched[1].message.blocks) = 2
  /\ DOMAIN out.dispatched[1].message.want # {}
  /\ stats[last.item.peer].outgoing = 2

\* The put tasks one frame spawns: one per block, from the frame's source.
RECURSIVE PutsOf(_, _)
PutsOf(source, blocks) ==
  IF blocks = <<>> THEN EmptyBag
  ELSE SetToBag({[source |-> source, block |-> Head(blocks)]}) (+) PutsOf(source, Tail(blocks))

\* A put task completes: it leaves the bag of tasks in flight.
PutCompletes(t) == t \in BagToSet(put_tasks) /\ put_tasks' = put_tasks (-) SetToBag({t})

\* C11: a frame from A spawns one put per block; when a put completes, only
\* stats[A] may change: incoming_unique grows by the data length when put
\* reported the block as new, incoming_duplicate grows by it when put reported
\* it as already stored, nothing changes when put failed; nothing is sent to
\* any waiter at that step, whatever the outcome.
C11_PutOncePerBlock ==
  [][/\ (HandledIncoming /\ loop' = "running") =>
          put_tasks' = put_tasks (+) PutsOf(Head(incoming_rx).peer,
                                            Head(incoming_rx).message.blocks)
     /\ \A t \in BagToSet(put_tasks) :
          PutCompletes(t) =>
            LET n == Len(t.block.data)
                A == t.source
                res == last'.item.res
            IN /\ last'.chan = "put" /\ last'.item.peer = A /\ last'.item.block = t.block
               /\ DOMAIN stats' = DOMAIN stats
               /\ \A q \in (DOMAIN stats) \ {A} : stats'[q] = stats[q]
               /\ res = "new" => stats'[A] = [stats[A] EXCEPT !.incoming_unique = @ + n]
               /\ res = "dup" => stats'[A] = [stats[A] EXCEPT !.incoming_duplicate = @ + n]
               /\ res = "err" => stats'[A] = stats[A]
               /\ replies' = replies
               /\ wanted_blocks' = wanted_blocks
               /\ out'.sends = <<>>
    ]_vars

\* C11 witness: a put of a block received from a peer has just failed after
\* one was stored as new and one as already stored.
C11_Witness ==
  /\ last.chan = "put" /\ last.item.res = "err"
  /\ stats[last.item.peer].incoming_unique > 0
  /\ stats[last.item.peer].incoming_duplicate > 0

\* The total of one counter over the peers in S, as stats holds them.
RECURSIVE Total(_, _)
Total(S, field) ==
  IF S = {} THEN 0
  ELSE LET p == CHOOSE x \in S : TRUE IN stats[p][field] + Total(S \ {p}, field)

\* C12: the value replied to a Stats command is, counter by counter, the sum
\* over every peer that has a stats entry, connected or not, and handling
\* the command changes no per-peer counter.
C12_StatsIsSum ==
  [][(HandledControl /\ Head(control_rx).kind = "Stats") =>
       /\ stats' = stats
       /\ out'.sends = <<[tx |-> Head(control_rx).reply,
                          val |-> [stats |-> [incoming_unique |->
                                                Total(DOMAIN stats, "incoming_unique"),
                                              incoming_duplicate |->
                                                Total(DOMAIN stats, "incoming_duplicate"),
                                              outgoing |-> Total(DOMAIN stats, "outgoing")]],
                          ok |-> Head(control_rx).reply \notin rx_dropped]>>
       /\ replies'[Head(control_rx).reply].got = <<out'.sends[1].val>>
    ]_vars

\* C12 witness: with no put in flight, a Stats command was answered with the
\* bytes received from a peer that has disconnected since.
C12_Witness ==
  /\ last.chan = "control" /\ last.item.kind = "Stats"
  /\ put_tasks = EmptyBag
  /\ \E p \in (DOMAIN stats) \ (DOMAIN connected_peers) : stats[p].incoming_unique > 0
  /\ replies[last.item.reply].got[1].stats.incoming_unique > 0

\* C13: a message of wants, cancels and consistent blocks that is encoded and
\* decoded again comes back without error and with the same want map, the
\* same cancel set and the same sequence of blocks, also when a cid is both
\* wanted and cancelled and when the message is empty.
C13_RoundTrip ==
  wire.received # None =>
    /\ wire.received[1].ok
    /\ wire.received[1].message.want = wire.sent.want
    /\ wire.received[1].message.cancel = wire.sent.cancel
    /\ wire.received[1].message.blocks = wire.sent.blocks

\* C13 witness: a decoded message with a cid both wanted (at a negative
\* priority) and cancelled and with the same block twice.
C13_Witness ==
  /\ wire.received # None
  /\ \E c \in wire.sent.cancel : c \in DOMAIN wire.sent.want /\ wire.sent.want[c] < 0
  /\ Len(wire.sent.blocks) = 2
  /\ wire.sent.blocks[1] = wire.sent.blocks[2]
  /\ wire.bytes[1].wantlist # None

\* C14: in the queued message of every connected peer no cid is both wanted
\* and cancelled, and no message handed to the network carries a cid as both.
C14_WantCancelDisjoint ==
  /\ \A p \in DOMAIN connected_peers :
       (DOMAIN connected_peers[p].message.want) \cap connected_peers[p].message.cancel = {}
  /\ \A i \in DOMAIN out.dispatched :
       (DOMAIN out.dispatched[i].message.want) \cap out.dispatched[i].message.cancel = {}

\* C15: an entry of wanted_blocks appears only when a WantBlock of its cid is
\* handled, and disappears only when a block of its cid is received or when
\* a CancelBlock of its cid is handled while it has one waiter; a CancelBlock
\* handled while the cid has several waiters leaves the entry in the table.
C15_EntryLifecycle ==
  [][\A c \in Cids :
       /\ (c \notin DOMAIN wanted_blocks /\ c \in DOMAIN wanted_blocks') =>
            (HandledControl /\ Head(control_rx).kind = "WantBlock"
               /\ Head(control_rx).cid = c)
       /\ (c \in DOMAIN wanted_blocks /\ c \notin DOMAIN wanted_blocks') =>
            \/ /\ HandledIncoming
               /\ \E i \in DOMAIN Head(incoming_rx).message.blocks :
                    Head(incoming_rx).message.blocks[i].cid = c
            \/ /\ HandledControl
               /\ Head(control_rx).kind = "CancelBlock"
               /\ Head(control_rx).cid = c
               /\ Len(wanted_blocks[c]) = 1
       /\ (HandledControl /\ Head(control_rx).kind = "CancelBlock"
             /\ Head(control_rx).cid = c /\ c \in DOMAIN wanted_blocks
             /\ Len(wanted_blocks[c]) > 1) =>
            (c \in DOMAIN wanted_blocks' /\ wanted_blocks'[c] # <<>>)
    ]_vars

\* C16: every key of wanted_blocks has at least one waiter.
C16_NoEmptyEntry ==
  \A c \in DOMAIN wanted_blocks : Len(wanted_blocks[c]) >= 1

\* C16 witness: a WantBlock was just handled and the table holds a cid with
\* one waiter and a cid with two.
C16_Witness ==
  /\ last.chan = "control" /\ last.item.kind = "WantBlock"
  /\ \E c, d \in DOMAIN wanted_blocks :
       Len(wanted_blocks[c]) = 1 /\ Len(wanted_blocks[d]) = 2

\* C17: a query changes nothing the engine owns, spawns and dispatches
\* nothing, and sends one reply: WantList(None) every key of wanted_blocks
\* once at priority 1; WantList(Some(p)) the pairs of p's received_want_list,
\* nothing when p is not connected; Peers the keys of connected_peers.
C17_QueriesReadOnly ==
  [][(HandledControl /\ Head(control_rx).kind \in {"WantList", "Peers", "Stats"}) =>
       LET cmd == Head(control_rx)
           p == cmd.peer
       IN /\ UNCHANGED <<wanted_blocks, connected_peers, stats, get_tasks, put_tasks, loop>>
          /\ out'.dispatched = <<>>
          /\ Len(out'.sends) = 1
          /\ out'.sends[1].tx = cmd.reply
          /\ replies' = [replies EXCEPT ![cmd.reply].got = <<out'.sends[1].val>>]
          /\ (cmd.kind = "WantList" /\ p = NoPeer) =>
               out'.sends[1].val = [list |-> SetToBag({<<c, 1>> : c \in DOMAIN wanted_blocks})]
          /\ (cmd.kind = "WantList" /\ p \in DOMAIN connected_peers) =>
               out'.sends[1].val =
                 [list |-> SetToBag({<<c, connected_peers[p].received_want_list[c]>> :
                                       c \in DOMAIN connected_peers[p].received_want_list})]
          /\ (cmd.kind = "WantList" /\ p # NoPeer /\ p \notin DOMAIN connected_peers) =>
               out'.sends[1].val = [list |-> EmptyBag]
          /\ cmd.kind = "Peers" =>
               out'.sends[1].val = [peers |-> SetToBag(DOMAIN connected_peers)]
    ]_vars

\* C17 witness: the local wantlist was asked for while a cid has two waiters.
C17_Witness ==
  /\ last.chan = "control" /\ last.item.kind = "WantList" /\ last.item.peer = NoPeer
  /\ \E c \in DOMAIN wanted_blocks : Len(wanted_blocks[c]) = 2
  /\ Len(replies[last.item.reply].got) = 1

\* C17 witness: the wantlist of a connected peer that wants a cid was asked for.
C17_WitnessPeer ==
  /\ last.chan = "control" /\ last.item.kind = "WantList"
  /\ last.item.peer \in DOMAIN connected_peers
  /\ replies[last.item.reply].got[1].list # EmptyBag

\* C18: handling WantBlock(cid, reply) sets want[cid] = 1 in the queued
\* message of every connected peer and appends reply to the waiters of cid;
\* the rest of every ledger, the stats, the set of connected peers and the
\* tasks are unchanged, nothing is dispatched and nothing is sent on a reply
\* channel.
C18_WantBlockEffect ==
  [][(HandledControl /\ Head(control_rx).kind = "WantBlock") =>
       LET cid == Head(control_rx).cid
           reply == Head(control_rx).reply
       IN /\ connected_peers' =
               [p \in DOMAIN connected_peers |->
                  [sent_want_list |-> connected_peers[p].sent_want_list,
                   received_want_list |-> connected_peers[p].received_want_list,
                   message |-> [connected_peers[p].message EXCEPT
                                  !.want = MapInsert(@, cid, 1)]]]
          /\ wanted_blocks' =
               MapInsert(wanted_blocks, cid,
                         IF cid \in DOMAIN wanted_blocks
                         THEN wanted_blocks[cid] \o <<reply>> ELSE <<reply>>)
          /\ UNCHANGED <<stats, replies, get_tasks, put_tasks, loop>>
          /\ out' = [sends |-> <<>>, dispatched |-> <<>>]
    ]_vars

\* C18 witness: a second WantBlock of a cid was handled while a connected
\* peer has a cancel of that cid queued.
C18_Witness ==
  /\ last.chan = "control" /\ last.item.kind = "WantBlock"
  /\ Len(wanted_blocks[last.item.cid]) = 2
  /\ \E p \in DOMAIN connected_peers :
       /\ last.item.cid \in connected_peers[p].message.cancel
       /\ connected_peers[p].message.want[last.item.cid] = 1
  /\ replies[last.item.reply].got = <<>>

\* A step that hands a message to the network is the handling of NewPeer(p)
\* or of Blocks(p, _), and the message goes to p; every other step dispatches
\* nothing.
OnlyEventsDispatch ==
  IF HandledPeer \/ HandledIncoming \/ HandledControl
  THEN out'.dispatched # <<>> =>
         /\ HandledPeer
         /\ Head(peer_rx).kind \in {"NewPeer", "Blocks"}
         /\ \A i \in DOMAIN out'.dispatched :
              out'.dispatched[i].to = Head(peer_rx).peer
  ELSE out'.dispatched = <<>> \/ out' = out

\* What is queued for p (its wants, its cancels) is still queued after the
\* step, and nothing of it has been committed to sent_want_list.
StaysQueued(p) ==
  /\ DOMAIN connected_peers[p].message.want \subseteq DOMAIN connected_peers'[p].message.want
  /\ connected_peers[p].message.cancel \subseteq connected_peers'[p].message.cancel
  /\ connected_peers'[p].sent_want_list = connected_peers[p].sent_want_list

\* C19 as stated: only NewPeer(p) and Blocks(p, _) dispatch, and what is
\* queued for a connected peer p stays queued until Blocks(p, _) is handled.
C19_QueuedUntilBlocks ==
  [][/\ OnlyEventsDispatch
     /\ \A p \in (DOMAIN connected_peers) \cap (DOMAIN connected_peers') :
          ~(HandledPeer /\ Head(peer_rx).kind = "Blocks" /\ Head(peer_rx).peer = p) =>
            StaysQueued(p)
    ]_vars

\* C19: only NewPeer(p) and Blocks(p, _) dispatch, to p; what is queued for a
\* connected peer p stays queued over every step but three: Blocks(p, _),
\* which sends it; NewPeer(p), which replaces the ledger by an empty one and
\* sends nothing of what was queued; DeadPeer(p), which removes the ledger
\* and sends nothing.
C19_OnlyEventsDispatch ==
  [][/\ OnlyEventsDispatch
     /\ \A p \in DOMAIN connected_peers :
          IF HandledPeer /\ Head(peer_rx).peer = p
          THEN CASE Head(peer_rx).kind = "Blocks" -> TRUE
                 [] Head(peer_rx).kind = "NewPeer" ->
                      /\ connected_peers'[p] = Ledger_new
                      /\ \A i \in DOMAIN out'.dispatched :
                           /\ out'.dispatched[i].message.cancel = {}
                           /\ out'.dispatched[i].message.blocks = <<>>
                           /\ DOMAIN out'.dispatched[i].message.want = DOMAIN wanted_blocks
                 [] Head(peer_rx).kind = "DeadPeer" ->
                      /\ p \notin DOMAIN connected_peers'
                      /\ out'.dispatched = <<>>
          ELSE p \in DOMAIN connected_peers' /\ StaysQueued(p)
    ]_vars

\* C19 witness: a CancelBlock was handled while a peer has a want and a cancel
\* queued and was sent neither.
C19_Witness ==
  /\ last.chan = "control" /\ last.item.kind = "CancelBlock"
  /\ out.dispatched = <<>>
  /\ \E p \in DOMAIN connected_peers :
       /\ DOMAIN connected_peers[p].message.want # {}
       /\ connected_peers[p].message.cancel # {}
       /\ connected_peers[p].sent_want_list = EmptyMap

\* A lookup task completes: it leaves the bag of tasks in flight.
GetCompletes(t) == t \in BagToSet(get_tasks) /\ get_tasks' = get_tasks (-) SetToBag({t})

\* The blocks of the scheduled cids whose index is in some, in scheduling order.
RECURSIVE BlocksAt(_, _, _)
BlocksAt(to_get, some, i) ==
  IF i > Len(to_get) THEN <<>>
  ELSE (IF i \in some THEN <<Block(to_get[i])>> ELSE <<>>) \o BlocksAt(to_get, some, i + 1)

Committed(sent_want_list, m) ==
  [c \in ((DOMAIN sent_want_list) \ m.cancel) \cup (DOMAIN m.want) |->
     IF c \in DOMAIN m.want THEN m.want[c] ELSE sent_want_list[c]]

\* C21: send() on a ledger whose queued message has no want, no cancel and no
\* block returns nothing and changes nothing; otherwise it returns the queued
\* message, removes its cancels from sent_want_list and inserts its wants,
\* keeps received_want_list and leaves the queued message empty, so that a
\* second send() returns nothing and changes nothing.
C21_SendCommits ==
  LET given == sending.given
      empty == DOMAIN given.message.want = {} /\ given.message.cancel = {}
                 /\ given.message.blocks = <<>>
      after == [sent_want_list |-> IF empty THEN given.sent_want_list
                                   ELSE Committed(given.sent_want_list, given.message),
                received_want_list |-> given.received_want_list,
                message |-> Message_default]
  IN /\ Len(sending.returned) >= 1 =>
          /\ sending.returned[1] = IF empty THEN None ELSE Some(given.message)
          /\ sending.ledger = after
     /\ Len(sending.returned) = 2 => sending.returned[2] = None

\* C21 witness: send() was called twice on a ledger whose queued message
\* wants and cancels a cid that is in sent_want_list and carries a block.
C21_Witness ==
  /\ Len(sending.returned) = 2
  /\ \E c \in sending.given.message.cancel :
       /\ c \in DOMAIN sending.given.message.want
       /\ c \in DOMAIN sending.given.sent_want_list
       /\ sending.given.sent_want_list[c] # sending.given.message.want[c]
  /\ sending.given.message.blocks # <<>>
  /\ sending.given.received_want_list # EmptyMap

\* C22: for every connected peer p, a cid in sent_want_list of p is wanted
\* locally, or its cancel is queued for p and not yet sent: once the cancel
\* (from CancelBlock or from a received block) went out with a send to p and
\* no WantBlock followed, the cid is not in sent_want_list.
C22_SentOnlyWanted ==
  \A p \in DOMAIN connected_peers :
    \A c \in DOMAIN connected_peers[p].sent_want_list :
      c \in DOMAIN wanted_blocks \/ c \in connected_peers[p].message.cancel

\* C23: handling a frame from A with cancels C and wants W while L is the
\* local wantlist leaves received_want_list of A equal to the old list
\* without the cids of C, overwritten by the wants of W whose cid is not in
\* L; the received_want_list of every other peer is unchanged.
C23_ReceivedWantList ==
  [][(HandledIncoming /\ loop' = "running") =>
       LET A == Head(incoming_rx).peer
           C == Head(incoming_rx).message.cancel
           W == Head(incoming_rx).message.want
           L == DOMAIN wanted_blocks
           old == connected_peers[A].received_want_list
           kept == (DOMAIN old) \ C
           added == (DOMAIN W) \ L
       IN /\ connected_peers'[A].received_want_list =
               [c \in kept \cup added |-> IF c \in added THEN W[c] ELSE old[c]]
          /\ \A q \in (DOMAIN connected_peers) \ {A} :
               connected_peers'[q].received_want_list =
                 connected_peers[q].received_want_list
    ]_vars

\* C23 witness: a frame that wants and cancels the same cid was handled, the
\* cid is in the sender's list with the priority of the want, and another
\* peer has a list of its own.
C23_Witness ==
  /\ last.chan = "incoming" /\ loop = "running"
  /\ \E c \in last.item.message.cancel :
       /\ c \in DOMAIN last.item.message.want
       /\ c \in DOMAIN connected_peers[last.item.peer].received_want_list
       /\ connected_peers[last.item.peer].received_want_list[c] = last.item.message.want[c]
  /\ \E q \in (DOMAIN connected_peers) \ {last.item.peer} :
       connected_peers[q].received_want_list # EmptyMap

\* C24: in the step that handles a frame with block b, every waiter of b.cid
\* is sent b and b.cid leaves wanted_blocks, while the put of b is only
\* spawned: it is in flight after the step.  The step in which a put
\* completes, with whatever outcome, sends nothing to a waiter and leaves
\* wanted_blocks and every reply channel as they were.
C24_DeliveryBeforePut ==
  [][/\ (HandledIncoming /\ loop' = "running") =>
          \A i \in DOMAIN Head(incoming_rx).message.blocks :
            LET b == Head(incoming_rx).message.blocks[i]
                t == [source |-> Head(incoming_rx).peer, block |-> b]
                waiters == IF b.cid \in DOMAIN wanted_blocks
                           THEN wanted_blocks[b.cid] ELSE <<>>
            IN /\ b.cid \notin DOMAIN wanted_blocks'
               /\ \A k \in DOMAIN waiters : replies'[waiters[k]].got = <<[ok |-> b]>>
               /\ CopiesIn(t, put_tasks') > CopiesIn(t, put_tasks)
     /\ \A t \in BagToSet(put_tasks) :
          PutCompletes(t) =>
            /\ replies' = replies
            /\ wanted_blocks' = wanted_blocks
            /\ out'.sends = <<>>
    ]_vars

\* C24 witness: the put of a block has just failed and the waiter of its cid
\* holds the block.
C24_Witness ==
  /\ last.chan = "put" /\ last.item.res = "err"
  /\ last.item.block.cid \notin DOMAIN wanted_blocks
  /\ \E r \in DOMAIN replies :
       /\ replies[r].cmd.kind = "WantBlock"
       /\ replies[r].got = <<[ok |-> last.item.block]>>

\* C25: no step removes a stats entry or lowers a counter; NewPeer(p) gives p
\* a zeroed entry when it has none and keeps the entry it has; DeadPeer(p)
\* removes the ledger of p and leaves the stats as they are; every connected
\* peer has a stats entry.
C25_StatsOnlyGrow ==
  [][/\ DOMAIN stats \subseteq DOMAIN stats'
     /\ \A p \in DOMAIN stats :
          /\ stats'[p].incoming_unique >= stats[p].incoming_unique
          /\ stats'[p].incoming_duplicate >= stats[p].incoming_duplicate
          /\ stats'[p].outgoing >= stats[p].outgoing
     /\ (HandledPeer /\ Head(peer_rx).kind = "NewPeer") =>
          LET p == Head(peer_rx).peer
          IN /\ DOMAIN stats' = (DOMAIN stats) \cup {p}
             /\ stats'[p] = IF p \in DOMAIN stats THEN stats[p]
                             ELSE [incoming_unique |-> 0, incoming_duplicate |-> 0,
                                   outgoing |-> 0]
     /\ (HandledPeer /\ Head(peer_rx).kind = "DeadPeer") =>
          /\ Head(peer_rx).peer \notin DOMAIN connected_peers'
          /\ stats' = stats
     /\ DOMAIN connected_peers' \subseteq DOMAIN stats'
    ]_vars

\* C25 witness: a peer with bytes counted has connected again and its
\* counters are as they were.
C25_Witness ==
  /\ last.chan = "peer" /\ last.item.kind = "NewPeer"
  /\ last.item.peer \in DOMAIN connected_peers
  /\ stats[last.item.peer].incoming_unique > 0

\* C26: whenever the loop takes a frame of peer p from the incoming channel
\* or a Blocks(p, _) event from the peer-event channel, p is a key of
\* connected_peers.
C26_LedgerWhenHandled ==
  [][/\ HandledIncoming => Head(incoming_rx).peer \in DOMAIN connected_peers
     /\ (HandledPeer /\ Head(peer_rx).kind = "Blocks") =>
          Head(peer_rx).peer \in DOMAIN connected_peers
    ]_vars

\* C26, second half alone: a Blocks(p, _) event is never taken when p has no ledger.
C26_BlocksAfterDeadPeer ==
  [][(HandledPeer /\ Head(peer_rx).kind = "Blocks") =>
       Head(peer_rx).peer \in DOMAIN connected_peers]_vars

\* C27: right after Blocks(p, _) is handled, every block of the message that
\* went out to p has its cid in received_want_list of p.
C27_BlocksOnlyIfWanted ==
  (last.chan = "peer" /\ last.item.kind = "Blocks" /\ loop = "running") =>
    \A i \in DOMAIN out.dispatched :
      \A k \in DOMAIN out.dispatched[i].message.blocks :
        out.dispatched[i].message.blocks[k].cid
          \in DOMAIN connected_peers[out.dispatched[i].to].received_want_list

\* C28: handling NewPeer(p) leaves p with an empty ledger whether p was
\* connected or not; what the previous ledger held is not sent (the only
\* message that may go out is the snapshot of the local wantlist); the
\* stats entry p had, wanted_blocks and the ledger of every other peer are
\* unchanged.
C28_NewPeerResetsLedger ==
  [][(HandledPeer /\ Head(peer_rx).kind = "NewPeer") =>
       LET p == Head(peer_rx).peer
       IN /\ connected_peers' =
               [q \in (DOMAIN connected_peers) \cup {p} |->
                  IF q = p
                  THEN [sent_want_list |-> EmptyMap, received_want_list |-> EmptyMap,
                        message |-> Message_default]
                  ELSE connected_peers[q]]
          /\ \A q \in DOMAIN stats : stats'[q] = stats[q]
          /\ wanted_blocks' = wanted_blocks
          /\ \A i \in DOMAIN out'.dispatched :
               /\ out'.dispatched[i].message.cancel = {}
               /\ out'.dispatched[i].message.blocks = <<>>
               /\ DOMAIN out'.dispatched[i].message.want = DOMAIN wanted_blocks
    ]_vars

\* C28 witness: a second stream of a peer that had been served a block it
\* wanted was opened, and its ledger is empty.
C28_Witness ==
  /\ last.chan = "peer" /\ last.item.kind = "NewPeer"
  /\ streams[last.item.peer] = 2
  /\ events = 3
  /\ stats[last.item.peer].outgoing > 0
  /\ connected_peers[last.item.peer] = Ledger_new

====
